---- MODULE Spec2Model ----
(***************************************************************************)
(* A model of the three lesson scripts of the napari training course       *)
(* (src/lessons/00_bioimage_visualization.py, 01_manual_annotation.py,     *)
(* 02_interactive_analysis.py).  The scripts drive a napari viewer: a      *)
(* layer list indexed by name, display properties, points and labels       *)
(* layers, a magicgui threshold widget, two key bindings, and calls into   *)
(* scikit-image / scipy / tifffile.  The calls are modelled by what the    *)
(* called library function does with the arguments the script passes.      *)
(***************************************************************************)
EXTENDS Integers, Sequences, FiniteSets, TLC

\* ------------------------------------------------------------------------
\* Bounds of the model
\* ------------------------------------------------------------------------
\* layers in the viewer at once, in the session of lesson 00
MaxLayers == 3

\* layers in the viewer at once, in the sessions that add layers of every kind
MaxListed == 3

\* points that one points layer holds at once
MaxPoints == 2

\* points added to one points layer over its life
MaxClicks == 3

\* ------------------------------------------------------------------------
\* Generic helpers
\* ------------------------------------------------------------------------
Range(s) == {s[i] : i \in 1..Len(s)}

\* the list f with every element computed once
Listed(f) == f \o <<>>

Min(a, b) == IF a <= b THEN a ELSE b

Max(a, b) == IF a >= b THEN a ELSE b

SeqMax(s) == CHOOSE x \in Range(s) : \A y \in Range(s) : y <= x

SeqMin(s) == CHOOSE x \in Range(s) : \A y \in Range(s) : x <= y

RECURSIVE Product(_)
Product(s) == IF s = <<>> THEN 1 ELSE s[1] * Product(Tail(s))

RemoveAt(s, i) == SubSeq(s, 1, i - 1) \o SubSeq(s, i + 1, Len(s))

None == [none |-> TRUE]

\* ------------------------------------------------------------------------
\* Arrays and image files.  An array is [shape, itemsize, vals]: vals is the
\* row-major list of elements, itemsize the width of one element in bytes.
\* Image intensities are fixed-point numbers (hundredths).
\* ------------------------------------------------------------------------
Array(shape, itemsize, vals) ==
    [shape |-> shape, itemsize |-> itemsize, vals |-> vals]

RECURSIVE ToBytes(_, _)
ToBytes(v, n) == IF n = 0 THEN <<>> ELSE <<v % 256>> \o ToBytes(v \div 256, n - 1)

RECURSIVE FromBytes(_)
FromBytes(b) == IF b = <<>> THEN 0 ELSE b[1] + 256 * FromBytes(Tail(b))

RECURSIVE Flatten(_)
Flatten(ss) == IF ss = <<>> THEN <<>> ELSE ss[1] \o Flatten(Tail(ss))

\* tifffile writes the elements unchanged at the width of the array's dtype
imsave(arr) ==
    [shape |-> arr.shape, itemsize |-> arr.itemsize,
     bytes |-> Flatten([i \in 1..Len(arr.vals) |->
                            ToBytes(arr.vals[i], arr.itemsize)])]

imread(file) ==
    Array(file.shape, file.itemsize,
          [i \in 1..Product(file.shape) |->
              FromBytes(SubSeq(file.bytes, (i - 1) * file.itemsize + 1,
                               i * file.itemsize))])

\* ------------------------------------------------------------------------
\* The layer list (viewer.layers).  A layer name is [base, n]: it reads
\* "base" when n = 0 and "base [n]" otherwise.
\* ------------------------------------------------------------------------
Name(base) == [base |-> base, n |-> 0]

inc_name_count(name) == [name EXCEPT !.n = @ + 1]

RECURSIVE CoerceLoop(_, _, _)
CoerceLoop(existing, name, k) ==
    IF k = 0 THEN name
    ELSE CoerceLoop(existing,
                    IF name \in existing THEN inc_name_count(name) ELSE name,
                    k - 1)

\* one pass over the list in order, incrementing on each match
RECURSIVE SinglePass(_, _)
SinglePass(names, name) ==
    IF names = <<>> THEN name
    ELSE SinglePass(Tail(names),
                    IF names[1] = name THEN inc_name_count(name) ELSE name)

\* the names of the layers other than the one at index skip, in order
OtherNames(ls, skip) ==
    LET names == [i \in 1..Len(ls) |-> ls[i].name]
    IN  IF skip \in 1..Len(ls) THEN RemoveAt(names, skip) ELSE names

\* one pass over the list in order, incrementing on each match
CoerceSinglePass(ls, name, skip) ==
    SinglePass(OtherNames(ls, skip), name)

\* LayerList._coerce_name: the name made unique among the other layers
coerce_name(ls, name, skip) ==
    CoerceLoop({ls[i].name : i \in (1..Len(ls)) \ {skip}}, name, Len(ls))

\* viewer.layers[name]: the index of the first layer of that name, 0 when
\* there is none (a KeyError)
LayerIndex(ls, name) ==
    IF \E i \in 1..Len(ls) : ls[i].name = name
    THEN CHOOSE i \in 1..Len(ls) :
            ls[i].name = name /\ \A j \in 1..(i - 1) : ls[j].name # name
    ELSE 0

HasLayer(ls, name) == LayerIndex(ls, name) # 0

\* the default contrast limits of an image layer: the range of its data
DefaultContrast(arr) == <<SeqMin(arr.vals), SeqMax(arr.vals)>>

\* keyword arguments left out are the empty tuple / the empty string
NoKwargs == [contrast_limits |-> <<>>, colormap |-> "", blending |-> ""]

NewLayer(kind, name, data, kw) ==
    [name |-> name,
     kind |-> kind,
     data |-> data,
     colormap |-> IF kw.colormap = "" THEN "gray" ELSE kw.colormap,
     contrast_limits |-> IF kw.contrast_limits # <<>> THEN kw.contrast_limits
                         ELSE IF kind = "image" THEN DefaultContrast(data)
                         ELSE <<>>,
     opacity |-> 100,
     blending |-> IF kw.blending = "" THEN "translucent" ELSE kw.blending,
     mode |-> "pan_zoom",
     visible |-> TRUE]

\* LayerList.append: the layer goes last, its name coerced to be unique
AppendLayer(ls, kind, name, data, kw) ==
    Append(ls, [NewLayer(kind, name, data, kw)
                    EXCEPT !.name = coerce_name(ls, name, 0)])

\* a variant that replaces the layer by a fresh one of the new name
SetNameRecreate(ls, i, new) ==
    [ls EXCEPT ![i] = [NewLayer(ls[i].kind, coerce_name(ls, new, i), ls[i].data,
                                NoKwargs) EXCEPT !.visible = ls[i].visible]]

\* layer.name = new: the name event makes the list coerce the new name
SetName(ls, i, new) ==
    [ls EXCEPT ![i].name = coerce_name(ls, new, i)]

\* ------------------------------------------------------------------------
\* State
\* ------------------------------------------------------------------------
VARIABLES
    layers,      \* viewer.layers: the list of layers, in order
    files,       \* the files on disk: path -> file contents, or None
    pyvars,      \* the variables of the notebook kernel: name -> value, or None
    percentile,  \* the value of the threshold widget's slider
    hist         \* history: what the last operation was and what it acted on

vars == <<layers, files, pyvars, percentile, hist>>

Paths == {"data/nuclei.tif", "data/cell_membranes.tif", "nuclei-labels.tif"}

PyVars ==
    {"nuclei", "membranes", "nuclei_mip", "nuclei_labels", "ratios",
     "foreground_processed", "smoothed_distance", "nuclei_segmentation",
     "foreground", "distance"}

NoHist == [op |-> "none"]

\* ------------------------------------------------------------------------
\* Lesson 00: loading and displaying images, display properties, renaming
\* ------------------------------------------------------------------------
NucleiImages ==
    {Array(<<2, 1, 2>>, 2, <<7, 35, 60, 300>>),
     Array(<<1, 2, 2>>, 1, <<0, 10, 20, 255>>)}

MembraneImages == {Array(<<2, 1, 2>>, 1, <<2, 20, 2, 9>>)}

\* the keyword arguments of the two add_image calls that pass any
NucleiKwargs ==
    [contrast_limits |-> <<7, 35>>, colormap |-> "blue", blending |-> "additive"]

MembraneKwargs ==
    [contrast_limits |-> <<2, 20>>, colormap |-> "green", blending |-> "additive"]

Init00 ==
    /\ layers = <<>>
    /\ \E n \in NucleiImages, m \in MembraneImages :
          files = [p \in Paths |->
                      IF p = "data/nuclei.tif" THEN imsave(n)
                      ELSE IF p = "data/cell_membranes.tif" THEN imsave(m)
                      ELSE None]
    /\ pyvars = [v \in PyVars |-> None]
    /\ percentile = 50
    /\ hist = NoHist

\* nuclei = imread('data/nuclei.tif')
Imread(var, path) ==
    /\ files[path] # None
    /\ pyvars[var] = None
    /\ pyvars' = [pyvars EXCEPT ![var] = imread(files[path])]
    /\ UNCHANGED <<layers, files, percentile, hist>>

\* viewer.add_image(nuclei, **kw): the layer is named after the variable
add_image(ls, var, data, kw) == AppendLayer(ls, "image", Name(var), data, kw)

AddImage(var, kw) ==
    /\ pyvars[var] # None
    /\ Len(layers) < Min(MaxLayers, MaxListed)
    /\ layers' = add_image(layers, var, pyvars[var], kw)
    /\ UNCHANGED <<files, pyvars, percentile, hist>>

set_colormap(ls, i, c) == [ls EXCEPT ![i].colormap = c]

\* a variant that clips the data to the new limits
set_contrast_limits_clip(ls, i, cl) ==
    [ls EXCEPT ![i].contrast_limits = cl,
               ![i].data.vals = [k \in 1..Len(@) |-> Max(cl[1], Min(cl[2], @[k]))]]

set_contrast_limits(ls, i, cl) == [ls EXCEPT ![i].contrast_limits = cl]

set_opacity(ls, i, o) == [ls EXCEPT ![i].opacity = o]

\* viewer.layers[name].colormap = 'red'
SetColormap(name) ==
    /\ HasLayer(layers, name)
    /\ layers[LayerIndex(layers, name)].kind = "image"
    /\ layers' = set_colormap(layers, LayerIndex(layers, name), "red")
    /\ UNCHANGED <<files, pyvars, percentile, hist>>

\* viewer.layers[name].contrast_limits = [0.4, 0.6]
SetContrastLimits(name) ==
    /\ HasLayer(layers, name)
    /\ layers[LayerIndex(layers, name)].kind = "image"
    /\ layers' = set_contrast_limits(layers, LayerIndex(layers, name), <<40, 60>>)
    /\ UNCHANGED <<files, pyvars, percentile, hist>>

\* viewer.layers[name].opacity = 0.9
SetOpacity(name) ==
    /\ HasLayer(layers, name)
    /\ layers' = set_opacity(layers, LayerIndex(layers, name), 90)
    /\ UNCHANGED <<files, pyvars, percentile, hist>>

\* viewer.layers[name].name = new
Rename(name, new) ==
    /\ HasLayer(layers, name)
    /\ new # name
    /\ layers' = SetName(layers, LayerIndex(layers, name), new)
    /\ UNCHANGED <<files, pyvars, percentile, hist>>

\* viewer.layers.remove(layer)
RemoveLayer(name) ==
    /\ HasLayer(layers, name)
    /\ layers' = RemoveAt(layers, LayerIndex(layers, name))
    /\ UNCHANGED <<files, pyvars, percentile, hist>>

\* The cells of lesson 00, each of which may be run any number of times.
Next00 ==
    \/ Imread("nuclei", "data/nuclei.tif")
    \/ Imread("membranes", "data/cell_membranes.tif")
    \/ AddImage("nuclei", NoKwargs)
    \/ AddImage("nuclei", NucleiKwargs)
    \/ AddImage("membranes", MembraneKwargs)
    \/ SetColormap(Name("nuclei"))
    \/ SetContrastLimits(Name("nuclei"))
    \/ SetOpacity(Name("nuclei"))
    \/ Rename(Name("nuclei"), Name("divison"))

Spec00 == Init00 /\ [][Next00]_vars

\* ------------------------------------------------------------------------
\* The layer list under every way the lessons add, rename and remove layers
\* ------------------------------------------------------------------------
EmptyPoints == Array(<<0, 2>>, 8, <<>>)

\* a variant that keeps the pixels below the level
threshold_below(data, p) ==
    LET data_min == SeqMin(data.vals)
        data_max == SeqMax(data.vals)
    IN  [data EXCEPT
            !.itemsize = 1,
            !.vals = [k \in 1..Len(data.vals) |->
                         IF data.vals[k] * 100 < data_min * 100 + p * (data_max - data_min)
                         THEN 1 ELSE 0]]

\* threshold(layer, percentile):
\*     layer.data > data_min + percentile / 100 * (data_max - data_min)
threshold(data, p) ==
    LET data_min == SeqMin(data.vals)
        data_max == SeqMax(data.vals)
    IN  [data EXCEPT
            !.itemsize = 1,
            !.vals = [k \in 1..Len(data.vals) |->
                         IF data.vals[k] * 100 > data_min * 100 + p * (data_max - data_min)
                         THEN 1 ELSE 0]]

ResultName == Name("threshold result")

\* magicgui hands the returned Labels data to the viewer: the data of the
\* layer named 'threshold result' is replaced, or the layer is added
show_layer_result(ls, result) ==
    IF HasLayer(ls, ResultName)
    THEN [ls EXCEPT ![LayerIndex(ls, ResultName)].data = result]
    ELSE AppendLayer(ls, "labels", ResultName, result, NoKwargs)

\* viewer.add_labels(data, name=...), viewer.add_points(name=...),
\* viewer.add_shapes(name=...)
AddNamed(kind, name, data) ==
    /\ Len(layers) < MaxListed
    /\ layers' = AppendLayer(layers, kind, Name(name), data, NoKwargs)
    /\ UNCHANGED <<files, pyvars, percentile, hist>>

\* one call of the threshold widget on an image layer of the viewer
ThresholdCall(i) ==
    /\ layers[i].kind = "image"
    /\ HasLayer(layers, ResultName) \/ Len(layers) < MaxListed
    /\ layers' = show_layer_result(layers, threshold(layers[i].data, percentile))
    /\ UNCHANGED <<files, pyvars, percentile, hist>>

LayerNames == {layers[i].name : i \in 1..Len(layers)}

GivenNames == {"nuclei", "threshold result"}

RenameTargets == {Name("threshold result"), inc_name_count(Name("nuclei"))}

SmallImage == Array(<<1, 2>>, 1, <<10, 200>>)

SmallLabels == Array(<<1, 2>>, 1, <<0, 1>>)

InitLayers ==
    /\ layers = <<>>
    /\ files = [p \in Paths |-> IF p = "data/nuclei.tif" THEN imsave(SmallImage) ELSE None]
    /\ pyvars = [v \in PyVars |-> IF v = "nuclei" THEN SmallImage ELSE None]
    /\ percentile = 50
    /\ hist = NoHist

NextLayers ==
    \/ AddImage("nuclei", NoKwargs)
    \/ \E name \in GivenNames : AddNamed("labels", name, SmallLabels)
    \/ \E name \in GivenNames : AddNamed("points", name, EmptyPoints)
    \/ \E name \in GivenNames : AddNamed("shapes", name, EmptyPoints)
    \/ \E new \in RenameTargets : Rename(Name("nuclei"), new)
    \/ \E name \in LayerNames : RemoveLayer(name)
    \/ \E i \in 1..Len(layers) : ThresholdCall(i)

SpecLayers == InitLayers /\ [][NextLayers]_vars

PointNames == {"dividing", "non-dividing"}

\* the places a user clicks at: (z, y, x)
Coords == {<<0, 0, 0>>, <<1, 0, 1>>}

NumPoints(data) == data.shape[1]

\* len(viewer.layers[name].data)
PointCount(ls, name) == NumPoints(ls[LayerIndex(ls, name)].data)

append_point(data, coord) ==
    Array(<<data.shape[1] + 1, Len(coord)>>, data.itemsize, data.vals \o coord)

delete_point(data, k) ==
    LET d == data.shape[2]
    IN  Array(<<data.shape[1] - 1, d>>, data.itemsize,
              SubSeq(data.vals, 1, (k - 1) * d) \o
              SubSeq(data.vals, k * d + 1, Len(data.vals)))

\* a variant in which the points layers share one coordinate array
add_point_shared(ls, i, coord) ==
    [j \in 1..Len(ls) |->
        IF ls[j].kind = "points"
        THEN [ls[j] EXCEPT !.data = append_point(ls[i].data, coord)]
        ELSE ls[j]]

\* a click on the canvas in add mode: the point joins the selected layer
add_point(ls, i, coord) == [ls EXCEPT ![i].data = append_point(@, coord)]

\* the selected point of the selected layer is deleted
remove_point(ls, i, k) == [ls EXCEPT ![i].data = delete_point(@, k)]

\* viewer.open(path, plugin='builtins'): an image layer named after the file
OpenImage(path, name) ==
    /\ files[path] # None
    /\ Len(layers) < MaxListed
    /\ layers' = AppendLayer(layers, "image", Name(name), imread(files[path]), NoKwargs)
    /\ UNCHANGED <<files, pyvars, percentile, hist>>

\* viewer.add_points(name=name, face_color=..., n_dimensional=True)
AddPointsLayer(name) ==
    /\ Len(layers) < MaxListed
    /\ ~HasLayer(layers, Name(name))
    /\ layers' = AppendLayer(layers, "points", Name(name),
                             Array(<<0, 3>>, 8, <<>>), NoKwargs)
    /\ hist' = [hist EXCEPT !.added[name] = 0, !.deleted[name] = 0]
    /\ UNCHANGED <<files, pyvars, percentile>>

\* viewer.layers[name].mode = 'add'
SetMode(name, mode) ==
    /\ HasLayer(layers, Name(name))
    /\ layers[LayerIndex(layers, Name(name))].mode # mode
    /\ layers' = [layers EXCEPT ![LayerIndex(layers, Name(name))].mode = mode]
    /\ UNCHANGED <<files, pyvars, percentile, hist>>

AddPoint(name, coord) ==
    /\ HasLayer(layers, Name(name))
    /\ layers[LayerIndex(layers, Name(name))].mode = "add"
    /\ PointCount(layers, Name(name)) < MaxPoints
    /\ hist.added[name] < MaxClicks
    /\ layers' = add_point(layers, LayerIndex(layers, Name(name)), coord)
    /\ hist' = [hist EXCEPT !.added[name] = @ + 1]
    /\ UNCHANGED <<files, pyvars, percentile>>

DeletePoint(name, k) ==
    /\ HasLayer(layers, Name(name))
    /\ layers[LayerIndex(layers, Name(name))].mode = "select"
    /\ k \in 1..PointCount(layers, Name(name))
    /\ layers' = remove_point(layers, LayerIndex(layers, Name(name)), k)
    /\ hist' = [hist EXCEPT !.deleted[name] = @ + 1]
    /\ UNCHANGED <<files, pyvars, percentile>>

\* the points layer is deleted from the layer list
DeletePointsLayer(name) ==
    /\ HasLayer(layers, Name(name))
    /\ layers' = RemoveAt(layers, LayerIndex(layers, Name(name)))
    /\ UNCHANGED <<files, pyvars, percentile, hist>>

InitPoints ==
    /\ layers = <<>>
    /\ \E n \in NucleiImages :
          files = [p \in Paths |-> IF p = "data/nuclei.tif" THEN imsave(n) ELSE None]
    /\ pyvars = [v \in PyVars |-> None]
    /\ percentile = 50
    /\ hist = [added |-> [n \in PointNames |-> 0], deleted |-> [n \in PointNames |-> 0]]

NextPoints ==
    \/ OpenImage("data/nuclei.tif", "nuclei")
    \/ \E name \in PointNames : AddPointsLayer(name)
    \/ \E name \in PointNames, mode \in {"add", "select"} : SetMode(name, mode)
    \/ \E name \in PointNames, coord \in Coords : AddPoint(name, coord)
    \/ \E name \in PointNames, k \in 1..MaxPoints : DeletePoint(name, k)
    \/ \E name \in PointNames : DeletePointsLayer(name)

SpecPoints == InitPoints /\ [][NextPoints]_vars

Other(name) == IF name = "dividing" THEN "non-dividing" ELSE "dividing"

\* the points layer `name` is in the viewer before and after the step, with
\* the same coordinates
KeepsPoints(name) ==
    /\ HasLayer(layers', Name(name))
    /\ layers'[LayerIndex(layers', Name(name))].data
           = layers[LayerIndex(layers, Name(name))].data

\* the step adds a point to, deletes a point from, or deletes the layer `name`
TouchesPoints(name) ==
    \/ ~HasLayer(layers', Name(name))
    \/ ~KeepsPoints(name)

\* the count of every points layer is its additions minus its deletions
CountsAreOwn ==
    \A name \in PointNames :
        HasLayer(layers, Name(name)) =>
            PointCount(layers, Name(name)) = hist.added[name] - hist.deleted[name]

\* C1: with the points layers 'dividing' and 'non-dividing' in the viewer, a
\* point added to or deleted from one of them, or the deletion of that
\* layer, leaves the count and the coordinates of the other unchanged, and
\* the count of each is the additions minus the deletions made to it alone.
C1_PointsLayersIndependent ==
    /\ []CountsAreOwn
    /\ [][\A name \in PointNames :
             (/\ HasLayer(layers, Name(name))
              /\ HasLayer(layers, Name(Other(name)))
              /\ TouchesPoints(name)) => KeepsPoints(Other(name))]_vars

\* one layer was deleted after points had been added to and deleted from
\* both, and the other still holds its point
C1_Witness ==
    /\ ~HasLayer(layers, Name("dividing"))
    /\ hist.added["dividing"] = 2
    /\ hist.deleted["dividing"] = 1
    /\ HasLayer(layers, Name("non-dividing"))
    /\ hist.added["non-dividing"] = 3
    /\ hist.deleted["non-dividing"] = 2
    /\ PointCount(layers, Name("non-dividing")) = 1

\* ------------------------------------------------------------------------
\* Lesson 01: painting, saving and reloading the labels
\* ------------------------------------------------------------------------
\* the projection the labels are drawn over, and label images as to_labels
\* makes them from the drawn polygons (background 0, polygon k labelled k)
MipImages == {Array(<<1, 2>>, 2, <<40, 300>>)}

LabelImages ==
    {Array(<<1, 2>>, 8, <<0, 0>>),
     Array(<<1, 2>>, 8, <<1, 2>>)}

\* the labels a user paints with (0 is the eraser)
PaintLabels == {0, 1, 300}

\* a variant that writes the labels as an 8-bit image
save_as_uint8(data) ==
    imsave(Array(data.shape, 1, [k \in 1..Len(data.vals) |-> data.vals[k] % 256]))

\* layer.save(path, plugin='builtins'): the writer for the .tif extension
save_layer(data) == imsave(data)

\* viewer.add_labels(nuclei_labels)
AddLabels(var) ==
    /\ pyvars[var] # None
    /\ Len(layers) < MaxListed
    /\ layers' = AppendLayer(layers, "labels", Name(var), pyvars[var], NoKwargs)
    /\ UNCHANGED <<files, pyvars, percentile, hist>>

\* the paintbrush, the fill bucket and the eraser write a label into a pixel
Paint(name, k, label) ==
    /\ HasLayer(layers, name)
    /\ layers[LayerIndex(layers, name)].kind = "labels"
    /\ k \in 1..Len(layers[LayerIndex(layers, name)].data.vals)
    /\ layers[LayerIndex(layers, name)].data.vals[k] # label
    /\ layers' = [layers EXCEPT ![LayerIndex(layers, name)].data.vals[k] = label]
    /\ UNCHANGED <<files, pyvars, percentile, hist>>

\* viewer.layers['nuclei_labels'].save('nuclei-labels.tif', plugin='builtins')
SaveLabels(name, path) ==
    /\ HasLayer(layers, name)
    /\ files' = [files EXCEPT ![path] = save_layer(layers[LayerIndex(layers, name)].data)]
    /\ hist' = [saved |-> layers[LayerIndex(layers, name)].data]
    /\ UNCHANGED <<layers, pyvars, percentile>>

\* viewer.open('nuclei-labels.tif', name='saved nuclei', plugin='builtins')
OpenSaved(path, name) ==
    /\ files[path] # None
    /\ Len(layers) < MaxListed
    /\ layers' = AppendLayer(layers, "image", Name(name), imread(files[path]), NoKwargs)
    /\ UNCHANGED <<files, pyvars, percentile, hist>>

\* viewer.layers['nuclei_labels'].visible = False
Hide(name) ==
    /\ HasLayer(layers, name)
    /\ layers[LayerIndex(layers, name)].visible
    /\ layers' = [layers EXCEPT ![LayerIndex(layers, name)].visible = FALSE]
    /\ UNCHANGED <<files, pyvars, percentile, hist>>

InitSave ==
    /\ \E m \in MipImages, l \in LabelImages :
          /\ pyvars = [v \in PyVars |-> IF v = "nuclei_mip" THEN m
                                        ELSE IF v = "nuclei_labels" THEN l
                                        ELSE None]
          /\ layers = AppendLayer(<<>>, "image", Name("nuclei_mip"), m, NoKwargs)
    /\ files = [p \in Paths |-> None]
    /\ percentile = 50
    /\ hist = [saved |-> None]

NextSave ==
    \/ AddLabels("nuclei_labels")
    \/ \E k \in 1..2, label \in PaintLabels : Paint(Name("nuclei_labels"), k, label)
    \/ SaveLabels(Name("nuclei_labels"), "nuclei-labels.tif")
    \/ OpenSaved("nuclei-labels.tif", "saved nuclei")
    \/ Hide(Name("nuclei_labels"))
    \/ RemoveLayer(Name("saved nuclei"))

SpecSave == InitSave /\ [][NextSave]_vars

SavedPath == "nuclei-labels.tif"

\* the file on disk reads back as the array that was saved
ReadsBackExactly ==
    files[SavedPath] # None =>
        /\ imread(files[SavedPath]).shape = hist.saved.shape
        /\ imread(files[SavedPath]).vals = hist.saved.vals

\* a step that opens the saved file adds a layer holding the saved array
OpenGivesSaved ==
    Len(layers') = Len(layers) + 1 /\ layers'[Len(layers')].name.base = "saved nuclei"
        => /\ layers'[Len(layers')].data.shape = hist.saved.shape
           /\ layers'[Len(layers')].data.vals = hist.saved.vals
           /\ SubSeq(layers', 1, Len(layers)) = layers

\* C4: saving 'nuclei_labels' and opening the file gives a layer 'saved
\* nuclei' whose array equals the saved one in shape and in every label, and
\* neither the save nor the reload changes the data of 'nuclei_labels'.
C4_SaveReloadExact ==
    /\ []ReadsBackExactly
    /\ [][/\ OpenGivesSaved
          /\ files' # files => layers' = layers]_vars

\* a label image with a label above 255 was saved, reloaded, and painted on
\* after the save
C4_Witness ==
    /\ HasLayer(layers, Name("saved nuclei"))
    /\ HasLayer(layers, Name("nuclei_labels"))
    /\ \E k \in 1..2 : layers[LayerIndex(layers, Name("saved nuclei"))].data.vals[k] = 300
    /\ layers[LayerIndex(layers, Name("saved nuclei"))].data = hist.saved
    /\ layers[LayerIndex(layers, Name("nuclei_labels"))].data # hist.saved

\* ------------------------------------------------------------------------
\* Lesson 01: signal per unit area of the labels
\* ------------------------------------------------------------------------
RECURSIVE SumOver(_, _)
SumOver(vals, ks) ==
    IF ks = {} THEN 0
    ELSE LET k == CHOOSE x \in ks : TRUE
         IN  vals[k] + SumOver(vals, ks \ {k})

\* inside_pixels = labels == label_id
InsidePixels(labels, label_id) ==
    {k \in 1..Len(labels.vals) : labels.vals[k] = label_id}

\* signal / area for one label; numpy gives nan for 0 / 0
SignalPerArea(labels, image, label_id) ==
    LET inside_pixels == InsidePixels(labels, label_id)
    IN  [signal |-> SumOver(image.vals, inside_pixels),
         area |-> Cardinality(inside_pixels)]

\* for label_id in range(n_labels): ratios.append(signal / area)
signal_per_area(labels, image) ==
    LET n_labels == SeqMax(labels.vals)
    IN  [k \in 1..n_labels |-> SignalPerArea(labels, image, k - 1)]

\* the cell that computes the ratios from the layers of the viewer
ComputeRatios ==
    /\ HasLayer(layers, Name("nuclei_labels"))
    /\ HasLayer(layers, Name("nuclei_mip"))
    /\ LET labels == layers[LayerIndex(layers, Name("nuclei_labels"))].data
           image == layers[LayerIndex(layers, Name("nuclei_mip"))].data
       IN  /\ pyvars' = [pyvars EXCEPT
                            !["ratios"] = [list |-> signal_per_area(labels, image)]]
           /\ hist' = [labels |-> labels, image |-> image]
    /\ UNCHANGED <<layers, files, percentile>>

RatioMips == {Array(<<1, 3>>, 2, <<40, 300, 7>>)}

RatioLabels ==
    {Array(<<1, 3>>, 8, <<0, 0, 0>>),
     Array(<<1, 3>>, 8, <<1, 0, 2>>),
     Array(<<1, 3>>, 8, <<1, 2, 3>>)}

InitRatio ==
    /\ \E m \in RatioMips, l \in RatioLabels :
          /\ pyvars = [v \in PyVars |-> IF v = "nuclei_mip" THEN m
                                        ELSE IF v = "nuclei_labels" THEN l
                                        ELSE None]
          /\ layers = AppendLayer(AppendLayer(<<>>, "image", Name("nuclei_mip"), m, NoKwargs),
                                  "labels", Name("nuclei_labels"), l, NoKwargs)
    /\ files = [p \in Paths |-> None]
    /\ percentile = 50
    /\ hist = [labels |-> None, image |-> None]

NextRatio ==
    \/ \E k \in 1..3, label \in 0..3 : Paint(Name("nuclei_labels"), k, label)
    \/ ComputeRatios

SpecRatio == InitRatio /\ [][NextRatio]_vars

\* C10: for a label image whose maximum is n, the list of ratios holds one
\* ratio signal / area for every label 1..n, in order (not one for the
\* background 0, and one for n), and none is taken over an empty region.
C10_OneRatioPerPositiveLabel ==
    pyvars["ratios"] # None =>
        LET n_labels == SeqMax(hist.labels.vals)
            ratios == pyvars["ratios"].list
        IN  /\ Len(ratios) = n_labels
            /\ \A label_id \in 1..n_labels :
                  /\ ratios[label_id] = SignalPerArea(hist.labels, hist.image, label_id)
                  /\ ratios[label_id].area > 0

\* ------------------------------------------------------------------------
\* Lesson 02: masks, connected components and the mask cleanup
\*
\* A 2-D image may be given in tiles: it is cut by horizontal and vertical
\* lines into rectangles, `rows` and `cols` are the heights and widths of the
\* rectangles in pixels, and every pixel of a tile has the tile's value.
\* Two tiles that share a side hold pixels that are 4-adjacent, so the
\* 4-connected components of a tiled mask are unions of tiles, and the pixel
\* count of a component is the sum of the areas of its tiles.
\* ------------------------------------------------------------------------
Tiled(arr, rows, cols) ==
    [shape |-> arr.shape, itemsize |-> arr.itemsize, vals |-> arr.vals,
     rows |-> rows, cols |-> cols]

RowOf(shape, k) == ((k - 1) \div shape[2]) + 1

ColOf(shape, k) == ((k - 1) % shape[2]) + 1

\* the number of pixels of element k
PixelCount(arr, k) ==
    IF "rows" \in DOMAIN arr
    THEN arr.rows[RowOf(arr.shape, k)] * arr.cols[ColOf(arr.shape, k)]
    ELSE 1

Abs(x) == IF x < 0 THEN -x ELSE x

\* connectivity 1: the elements that share a side
Adjacent4(shape, j, k) ==
    Abs(RowOf(shape, j) - RowOf(shape, k)) + Abs(ColOf(shape, j) - ColOf(shape, k)) = 1

\* connectivity 2: the elements that share a side or a corner
Adjacent8(shape, j, k) ==
    /\ j # k
    /\ Abs(RowOf(shape, j) - RowOf(shape, k)) <= 1
    /\ Abs(ColOf(shape, j) - ColOf(shape, k)) <= 1

AdjacentBy(connectivity, shape, j, k) ==
    IF connectivity = 1 THEN Adjacent4(shape, j, k) ELSE Adjacent8(shape, j, k)

\* `part` with all that is connected to it in `rest` through `frontier`,
\* the elements that joined last
RECURSIVE Grow(_, _, _, _, _)
Grow(connectivity, shape, rest, part, frontier) ==
    LET more == {k \in rest : \E j \in frontier : AdjacentBy(connectivity, shape, j, k)}
    IN  IF more = {} THEN part
        ELSE Grow(connectivity, shape, rest \ more, part \cup more, more)

\* the connected component of the element set S that holds `part`
ComponentOf(connectivity, shape, S, part) ==
    Grow(connectivity, shape, S \ part, part, part)

RECURSIVE Components(_, _, _)
Components(connectivity, shape, S) ==
    IF S = {} THEN {}
    ELSE LET c == ComponentOf(connectivity, shape, S, {CHOOSE k \in S : TRUE})
         IN  {c} \cup Components(connectivity, shape, S \ c)

\* the pixels of the elements lo..hi that are in S
RECURSIVE PixelsIn(_, _, _, _)
PixelsIn(arr, S, lo, hi) ==
    IF lo > hi THEN 0
    ELSE IF lo = hi THEN (IF lo \in S THEN PixelCount(arr, lo) ELSE 0)
    ELSE PixelsIn(arr, S, lo, (lo + hi) \div 2)
             + PixelsIn(arr, S, ((lo + hi) \div 2) + 1, hi)

PixelsOf(arr, S) == PixelsIn(arr, S, 1, Len(arr.vals))

Foreground(arr) == {k \in 1..Len(arr.vals) : arr.vals[k] # 0}

Background(arr) == {k \in 1..Len(arr.vals) : arr.vals[k] = 0}

logical_not(arr) ==
    [arr EXCEPT !.vals = Listed([k \in 1..Len(arr.vals) |-> IF arr.vals[k] = 0 THEN 1 ELSE 0])]

\* morphology.remove_small_objects(ar, min_size): the components (of
\* connectivity 1) of fewer than min_size pixels are set to 0
remove_small_objects(ar, min_size) ==
    LET too_small == {c \in Components(1, ar.shape, Foreground(ar)) :
                         PixelsOf(ar, c) < min_size}
    IN  [ar EXCEPT !.itemsize = 1,
                   !.vals = Listed([k \in 1..Len(ar.vals) |->
                                IF ar.vals[k] = 0 \/ \E c \in too_small : k \in c
                                THEN 0 ELSE 1])]

\* a variant that leaves the mask inverted
remove_small_holes_inverted(ar, area_threshold) ==
    remove_small_objects(logical_not(ar), area_threshold)

\* morphology.remove_small_holes(ar, area_threshold): the small objects of
\* the inverse of ar are removed, and the result is inverted back
remove_small_holes(ar, area_threshold) ==
    logical_not(remove_small_objects(logical_not(ar), area_threshold))

HoleAreaThreshold == 60

MinObjectSize == 50

\* foreground_processed = morphology.remove_small_holes(foreground, 60)
\* foreground_processed = morphology.remove_small_objects(foreground_processed, min_size=50)
clean_mask(data) ==
    remove_small_objects(remove_small_holes(data, HoleAreaThreshold), MinObjectSize)

\* ------------------------------------------------------------------------
\* Lesson 02: the threshold widget and the Shift-P key binding
\* ------------------------------------------------------------------------
SliderMinimum == 0

SliderMaximum == 100

DefaultPercentile == 50

\* the most consecutive presses of Shift-P that are followed
MaxPresses == 2

TileRows == <<7, 1, 6>>

TileCols == <<8, 1, 7>>

TileShape == <<Len(TileRows), Len(TileCols)>>

NumTiles == Product(TileShape)

\* what the slider is asked to show: every position of its range, and one
\* position beyond each end
SliderRequests == (SliderMinimum - 1)..(SliderMaximum + 1)

\* QSlider.setValue: the value is brought into minimum..maximum
setValue_unbounded(v) == v

setValue(v) == Max(SliderMinimum, Min(SliderMaximum, v))

\* the widget's `layer` argument: the first image layer of the viewer
SelectedImage(ls) ==
    ls[CHOOSE i \in 1..Len(ls) :
          /\ ls[i].kind = "image"
          /\ \A j \in 1..(i - 1) : ls[j].kind # "image"]

\* without auto_call the function waits for its call button
call_on_button_only(ls, p) == ls

\* auto_call=True: a change of an argument calls threshold(layer, percentile)
\* and shows what it returns
auto_call(ls, p) == show_layer_result(ls, threshold(SelectedImage(ls).data, p))

NoPresses == [presses |-> 0, before |-> None, first |-> None]

\* the slider is moved, dragged or set to v
SetPercentile(v) ==
    /\ \E i \in 1..Len(layers) : layers[i].kind = "image"
    /\ percentile' = setValue(v)
    /\ IF percentile' # percentile
       THEN /\ layers' = auto_call(layers, percentile')
            /\ hist' = NoPresses
       ELSE UNCHANGED <<layers, hist>>
    /\ UNCHANGED <<files, pyvars>>

\* a variant that takes the layer out of the list and adds it anew
set_data_readd(ls, name, x) ==
    AppendLayer(RemoveAt(ls, LayerIndex(ls, name)),
                ls[LayerIndex(ls, name)].kind, name, x, NoKwargs)

\* viewer.layers[name].data = x
set_data(ls, name, x) == [ls EXCEPT ![LayerIndex(ls, name)].data = x]

\* def process_foreground(viewer), bound to Shift-P
process_foreground(ls) ==
    LET data == ls[LayerIndex(ls, ResultName)].data
        data_processed == clean_mask(data)
    IN  set_data(ls, ResultName, data_processed)

ProcessForeground ==
    /\ HasLayer(layers, ResultName)
    /\ hist.presses < MaxPresses
    /\ layers' = process_foreground(layers)
    /\ hist' = IF hist.presses = 0
               THEN [presses |-> 1,
                     before |-> layers[LayerIndex(layers, ResultName)].data,
                     first |-> layers'[LayerIndex(layers', ResultName)].data]
               ELSE [hist EXCEPT !.presses = @ + 1]
    /\ UNCHANGED <<files, pyvars, percentile>>

\* images of several intensities, in tiles
WidgetImages ==
    {Tiled(Array(TileShape, 2, <<0, 25, 50, 75, 100, 10, 90, 40, 60>>), TileRows, TileCols),
     Tiled(Array(TileShape, 2, <<300, 300, 20, 300, 120, 120, 20, 120, 300>>), TileRows, TileCols)}

\* nuclei_mip is on show, the widget is docked and was not yet used
InitWidget ==
    /\ \E image \in WidgetImages :
          /\ pyvars = [v \in PyVars |-> IF v = "nuclei_mip" THEN image ELSE None]
          /\ layers = AppendLayer(<<>>, "image", Name("nuclei_mip"), image, NoKwargs)
    /\ files = [p \in Paths |-> None]
    /\ percentile = DefaultPercentile
    /\ hist = NoPresses

NextWidget ==
    \/ \E v \in SliderRequests : SetPercentile(v)
    \/ ProcessForeground

SpecWidget == InitWidget /\ [][NextWidget]_vars

Result(ls) == ls[LayerIndex(ls, ResultName)].data

PercentileInRange == percentile \in SliderMinimum..SliderMaximum

ChangeShowsItsMask ==
    percentile' # percentile =>
        /\ HasLayer(layers', ResultName)
        /\ Result(layers') = threshold(SelectedImage(layers).data, percentile')

\* C8: the percentile of the threshold widget is always within 0..100, and
\* every change of it calls threshold again: right after the change the layer
\* 'threshold result' holds the mask of the selected image layer at the new
\* percentile.
C8_SliderInRangeAndAutoCall == []PercentileInRange /\ [][ChangeShowsItsMask]_vars

\* the slider was taken to its upper end, and the result layer shows the
\* empty mask of that percentile
C8_Witness ==
    /\ percentile = SliderMaximum
    /\ HasLayer(layers, ResultName)
    /\ hist.presses = 0
    /\ Foreground(Result(layers)) = {}

\* ------------------------------------------------------------------------
\* Lesson 02: the cleanup of every mask of the tiling
\* ------------------------------------------------------------------------
Dim == 20

Bright == 200

\* every image of two intensities: its bright tiles are the mask that the
\* widget shows
TwoLevelImages ==
    {Tiled(Array(TileShape, 2, [k \in 1..NumTiles |-> IF k \in S THEN Bright ELSE Dim]),
           TileRows, TileCols) : S \in SUBSET (1..NumTiles)}

CleanRequests == {SliderMinimum, DefaultPercentile, SliderMaximum}

InitClean ==
    /\ \E image \in TwoLevelImages :
          /\ pyvars = [v \in PyVars |-> IF v = "nuclei_mip" THEN image ELSE None]
          /\ layers = AppendLayer(<<>>, "image", Name("nuclei_mip"), image, NoKwargs)
    /\ files = [p \in Paths |-> None]
    /\ percentile = DefaultPercentile
    /\ hist = NoPresses

NextClean ==
    \/ \E v \in CleanRequests : SetPercentile(v)
    \/ ProcessForeground

SpecClean == InitClean /\ [][NextClean]_vars

\* C2: the cleanup (remove_small_holes(., 60), then
\* remove_small_objects(., min_size=50)) is idempotent: when Shift-P is pressed
\* again with nothing in between, 'threshold result' stays what the first
\* press made it, and cleaning that mask once more gives the same mask.
C2_CleanupIdempotent ==
    hist.presses >= 1 =>
        /\ Result(layers) = hist.first
        /\ clean_mask(hist.first) = hist.first

\* Shift-P was pressed twice on a mask of which the first press filled a hole
\* and removed an object, and left an object
C2_Witness ==
    /\ hist.presses = 2
    /\ \E k \in Background(hist.before) : k \in Foreground(hist.first)
    /\ \E k \in Foreground(hist.before) : k \in Background(hist.first)
    /\ \E k \in Foreground(hist.before) : k \in Foreground(hist.first)

\* ------------------------------------------------------------------------
\* Lesson 02: seeds, markers and the watershed
\* ------------------------------------------------------------------------
\* the most points of the peaks layer
MaxPeaks == 3

\* np.round of a coordinate given in halves of a pixel: to the nearest
\* integer, and a half to the even one
round(halves) ==
    LET whole == halves \div 2
    IN  IF halves % 2 = 0 THEN whole
        ELSE IF whole % 2 = 0 THEN whole ELSE whole + 1

\* new_peaks = np.round(viewer.layers['peaks'].data).astype(int).T: the
\* (row, column) of every point
new_peaks(data) ==
    [i \in 1..NumPoints(data) |->
        <<round(data.vals[2 * i - 1]), round(data.vals[2 * i])>>]

\* seeds = np.zeros(shape, dtype=bool); seeds[(new_peaks[0], new_peaks[1])] = 1
seeds_of(shape, data) ==
    LET at == {(rc[1] * shape[2]) + rc[2] + 1 : rc \in Range(new_peaks(data))}
    IN  Array(shape, 1, [k \in 1..Product(shape) |-> IF k \in at THEN 1 ELSE 0])

First(S) == CHOOSE k \in S : \A j \in S : k <= j

\* a variant that takes the seeds themselves for markers
label_binary(arr) == [arr EXCEPT !.itemsize = 8]

\* measure.label(arr): the components of full connectivity are numbered
\* 1, 2, ... in the order a row-by-row scan meets them; background is 0
label(arr) ==
    LET regions == Components(2, arr.shape, Foreground(arr))
        number(c) == Cardinality({d \in regions : First(d) < First(c)}) + 1
    IN  [arr EXCEPT
            !.itemsize = 8,
            !.vals = Listed([k \in 1..Len(arr.vals) |->
                         IF arr.vals[k] = 0 THEN 0
                         ELSE number(CHOOSE c \in regions : k \in c)])]

Negate(arr) == [arr EXCEPT !.vals = Listed([k \in 1..Len(arr.vals) |-> -arr.vals[k]])]

\* the neighbours of connectivity 1, in the order of their flat offsets
Neighbours(shape, k) ==
    LET w == shape[2]
    IN  SelectSeq(<<k - w, k - 1, k + 1, k + w>>,
                  LAMBDA j : j \in 1..Product(shape) /\ Adjacent4(shape, j, k))

\* the heap gives the element of least value, and of equal values the one
\* pushed first; the markers, all pushed at age 0, are taken in scan order
HeapPop(hp) ==
    CHOOSE e \in hp : \A f \in hp :
        \/ e.value < f.value
        \/ e.value = f.value /\ e.age < f.age
        \/ e.value = f.value /\ e.age = f.age /\ e.index <= f.index

\* the loop over the neighbours of a popped element: a neighbour inside the
\* mask and without a label takes the element's label and is pushed
RECURSIVE PushNeighbours(_, _, _, _, _)
PushNeighbours(image, mask, elem, todo, st) ==
    IF todo = <<>> THEN st
    ELSE LET nb == Head(todo)
         IN  IF mask.vals[nb] = 0 \/ st.out[nb] # 0
             THEN PushNeighbours(image, mask, elem, Tail(todo), st)
             ELSE PushNeighbours(image, mask, elem, Tail(todo),
                      [out |-> [st.out EXCEPT ![nb] = st.out[elem.index]],
                       hp |-> st.hp \cup {[value |-> image.vals[nb],
                                           age |-> st.count + 1,
                                           index |-> nb]},
                       count |-> st.count + 1])

RECURSIVE watershed_raveled(_, _, _)
watershed_raveled(image, mask, st) ==
    IF st.hp = {} THEN st.out
    ELSE LET elem == HeapPop(st.hp)
         IN  watershed_raveled(image, mask,
                 PushNeighbours(image, mask, elem, Neighbours(image.shape, elem.index),
                                [st EXCEPT !.hp = @ \ {elem}]))

\* segmentation.watershed(image, markers, mask=mask): the markers outside the
\* mask are dropped (markers * mask), the others flood the mask from the
\* lowest values of the image on
watershed(image, markers, mask) ==
    LET masked == [k \in 1..Len(markers.vals) |->
                      IF mask.vals[k] = 0 THEN 0 ELSE markers.vals[k]]
        start == {[value |-> image.vals[k], age |-> 0, index |-> k] :
                     k \in {j \in 1..Len(masked) : masked[j] # 0}}
    IN  Array(image.shape, 4,
              watershed_raveled(image, mask, [out |-> masked, hp |-> start, count |-> 0]))

PeaksName == Name("peaks")

SegmentationName == Name("nuclei_segmentation")

\* cell 24
segment(shape, peaks, smoothed_distance, foreground_processed) ==
    LET seeds == seeds_of(shape, peaks)
        markers == label(seeds)
    IN  watershed(Negate(smoothed_distance), markers, foreground_processed)

SegShape == <<2, 3>>

\* the places of the canvas a user clicks at, (row, column) in halves of a
\* pixel: the centre of every pixel, and one place between pixels
PeakPlaces ==
    {<<2 * r, 2 * c>> : r \in 0..(SegShape[1] - 1), c \in 0..(SegShape[2] - 1)}
        \cup {<<1, 1>>}

SegMasks ==
    {Array(SegShape, 1, [k \in 1..Product(SegShape) |-> IF k \in S THEN 1 ELSE 0]) :
        S \in SUBSET (1..Product(SegShape))}

\* smoothed distances: a plateau, and two surfaces with slopes
Distances ==
    {Array(SegShape, 8, <<1, 1, 1, 1, 1, 1>>),
     Array(SegShape, 8, <<3, 1, 2, 2, 1, 3>>),
     Array(SegShape, 8, <<1, 2, 3, 3, 2, 1>>)}

SegImage == Array(SegShape, 2, <<40, 7, 300, 12, 7, 90>>)

\* the state after cell 22: nuclei_mip, the cleaned foreground and the
\* smoothed distance are computed, and the peaks layer is there for the user
\* to remove points from and add points to
InitSeg ==
    /\ \E mask \in SegMasks, dist \in Distances :
          /\ pyvars = [v \in PyVars |->
                          CASE v = "nuclei_mip" -> SegImage
                            [] v = "foreground_processed" -> mask
                            [] v = "smoothed_distance" -> dist
                            [] OTHER -> None]
          /\ layers = AppendLayer(
                          AppendLayer(
                              AppendLayer(<<>>, "image", Name("nuclei_mip"), SegImage, NoKwargs),
                              "labels", Name("foreground"), mask, NoKwargs),
                          "points", PeaksName, Array(<<0, 2>>, 8, <<>>), NoKwargs)
    /\ files = [p \in Paths |-> None]
    /\ percentile = DefaultPercentile
    /\ hist = NoHist

Peaks(ls) == ls[LayerIndex(ls, PeaksName)].data

\* the user adds a point to the peaks layer
AddPeak(place) ==
    /\ HasLayer(layers, PeaksName)
    /\ ~HasLayer(layers, SegmentationName)
    /\ NumPoints(Peaks(layers)) < MaxPeaks
    /\ place \notin Range([i \in 1..NumPoints(Peaks(layers)) |->
                              <<Peaks(layers).vals[2 * i - 1], Peaks(layers).vals[2 * i]>>])
    /\ layers' = add_point(layers, LayerIndex(layers, PeaksName), place)
    /\ UNCHANGED <<files, pyvars, percentile, hist>>

\* the user removes a point of the peaks layer
DeletePeak(k) ==
    /\ HasLayer(layers, PeaksName)
    /\ ~HasLayer(layers, SegmentationName)
    /\ k \in 1..NumPoints(Peaks(layers))
    /\ layers' = remove_point(layers, LayerIndex(layers, PeaksName), k)
    /\ UNCHANGED <<files, pyvars, percentile, hist>>

\* cell 24, and viewer.add_labels(nuclei_segmentation); the session is
\* followed up to the first run of the cell
Segment ==
    /\ HasLayer(layers, PeaksName)
    /\ ~HasLayer(layers, SegmentationName)
    /\ LET nuclei_segmentation ==
               segment(pyvars["nuclei_mip"].shape, Peaks(layers),
                       pyvars["smoothed_distance"], pyvars["foreground_processed"])
       IN  /\ pyvars' = [pyvars EXCEPT !["nuclei_segmentation"] = nuclei_segmentation]
           /\ layers' = AppendLayer(layers, "labels", SegmentationName,
                                    nuclei_segmentation, NoKwargs)
    /\ UNCHANGED <<files, percentile, hist>>

NextSeg ==
    \/ \E place \in PeakPlaces : AddPeak(place)
    \/ \E k \in 1..MaxPeaks : DeletePeak(k)
    \/ Segment

SpecSeg == InitSeg /\ [][NextSeg]_vars

Segmented == HasLayer(layers, SegmentationName)

Segmentation == layers[LayerIndex(layers, SegmentationName)].data

Mask == pyvars["foreground_processed"]

PositiveLabels(arr) == {arr.vals[k] : k \in Foreground(arr)}

Blobs == Components(1, SegShape, Foreground(Mask))

SeedPixels == Foreground(seeds_of(SegShape, Peaks(layers)))

\* no pixel of one blob touches a pixel of another, not even at a corner
WellSeparated ==
    \A a, b \in Blobs : a # b =>
        \A j \in a, k \in b : ~Adjacent8(SegShape, j, k)

\* as many peaks as blobs, one in each blob, no two in the same or in
\* adjacent pixels
OnePeakPerBlob ==
    /\ NumPoints(Peaks(layers)) = Cardinality(Blobs)
    /\ Cardinality(SeedPixels) = Cardinality(Blobs)
    /\ \A b \in Blobs : Cardinality(SeedPixels \cap b) = 1
    /\ \A j, k \in SeedPixels : ~Adjacent8(SegShape, j, k)

\* C3: when the mask is made of k well-separated connected blobs and the
\* peaks layer holds k isolated peaks, one in each blob, the watershed
\* segmentation holds exactly k distinct positive labels.
C3_OneLabelPerSeededBlob ==
    (Segmented /\ WellSeparated /\ OnePeakPerBlob) =>
        Cardinality(PositiveLabels(Segmentation)) = Cardinality(Blobs)

\* two blobs, a peak in each, segmented: both blobs are labelled all over,
\* each with its own label
C3_Witness ==
    /\ Segmented /\ WellSeparated /\ OnePeakPerBlob
    /\ Cardinality(Blobs) = 2
    /\ \E b \in Blobs : Cardinality(b) = 2
    /\ Foreground(Segmentation) = Foreground(Mask)
    /\ \A b \in Blobs : \A j, k \in b : Segmentation.vals[j] = Segmentation.vals[k]

OneRegion(S) == Cardinality(Components(2, SegShape, S)) = 1

\* C9: whatever points the peaks layer holds, the segmentation is a valid
\* label array: it has the shape of the source image, every pixel outside the
\* mask is 0, and the pixels of each positive label form one connected region
\* inside the mask.
C9_SegmentationAlwaysValid ==
    Segmented =>
        /\ Segmentation.shape = pyvars["nuclei_mip"].shape
        /\ \A k \in Background(Mask) : Segmentation.vals[k] = 0
        /\ \A id \in PositiveLabels(Segmentation) :
              OneRegion({k \in 1..Len(Segmentation.vals) : Segmentation.vals[k] = id})

\* ------------------------------------------------------------------------
\* Loading from a path whose file is missing or is not a TIFF image
\* ------------------------------------------------------------------------
\* the contents of a file that is not an image
NotTiff == [shape |-> <<>>, itemsize |-> 0, bytes |-> <<80, 75>>]

NoError == "none"

\* the exceptions of a failed load, the spec's "IOError-kind"
IOErrorKinds == {"FileNotFoundError", "TiffFileError"}

\* one read of the file at path: the decoded array, or the exception raised
read_file(fs, path) ==
    IF fs[path] = None
    THEN [error |-> "FileNotFoundError", value |-> None]
    ELSE IF fs[path] = NotTiff
    THEN [error |-> "TiffFileError", value |-> None]
    ELSE [error |-> NoError, value |-> imread(fs[path])]

\* the layer name viewer.open derives from the path
BaseName(path) ==
    CASE path = "data/nuclei.tif" -> "nuclei"
      [] path = "data/cell_membranes.tif" -> "cell_membranes"
      [] OTHER -> "nuclei-labels"

\* a variant that shows a blank layer when the file cannot be read
open_path_placeholder(ls, fs, path) ==
    LET got == read_file(fs, path)
    IN  IF got.error # NoError
        THEN AppendLayer(ls, "image", Name(BaseName(path)),
                         Array(<<1>>, 1, <<0>>), NoKwargs)
        ELSE AppendLayer(ls, "image", Name(BaseName(path)), got.value, NoKwargs)

\* viewer.open(path, plugin='builtins'): the layer list after the call; the
\* exception of the reader leaves the call before any layer is made
open_path(ls, fs, path) ==
    LET got == read_file(fs, path)
    IN  IF got.error # NoError THEN ls
        ELSE AppendLayer(ls, "image", Name(BaseName(path)), got.value, NoKwargs)

NoLoad == [error |-> NoError, path |-> "", reads |-> 0]

\* nuclei = imread(path): the call is not wrapped in try/except, the
\* exception ends the cell and the variable is not assigned
LoadArray(var, path) ==
    /\ LET got == read_file(files, path)
       IN  /\ pyvars' = IF got.error = NoError
                        THEN [pyvars EXCEPT ![var] = got.value]
                        ELSE pyvars
           /\ hist' = [error |-> got.error, path |-> path, reads |-> 1]
    /\ UNCHANGED <<layers, files, percentile>>

\* viewer.open(path, plugin='builtins')
OpenPath(path) ==
    /\ Len(layers) < MaxListed
    /\ layers' = open_path(layers, files, path)
    /\ hist' = [error |-> read_file(files, path).error, path |-> path, reads |-> 1]
    /\ UNCHANGED <<files, pyvars, percentile>>

\* a file is put at, replaced at or deleted from a path, outside the session
SetFile(path, contents) ==
    /\ files[path] # contents
    /\ files' = [files EXCEPT ![path] = contents]
    /\ hist' = NoLoad
    /\ UNCHANGED <<layers, pyvars, percentile>>

LoadImage == Array(<<1, 2>>, 2, <<40, 300>>)

FileContents == {None, NotTiff, imsave(LoadImage)}

InitLoad ==
    /\ layers = <<>>
    /\ files \in [Paths -> FileContents]
    /\ pyvars = [v \in PyVars |-> None]
    /\ percentile = DefaultPercentile
    /\ hist = NoLoad

NextLoad ==
    \/ \E path \in Paths : LoadArray("nuclei", path)
    \/ \E path \in Paths : OpenPath(path)
    \/ \E path \in Paths, contents \in FileContents : SetFile(path, contents)

SpecLoad == InitLoad /\ [][NextLoad]_vars

\* the step is a load (imread or viewer.open) of a path
IsLoad == hist'.reads = 1

BadFile(path) == files[path] = None \/ files[path] = NotTiff

\* C11: a load from a path whose file is missing or not of a supported format
\* ends in an error of the IOError kind, after a single read of the file; it
\* adds no layer, and leaves every layer and every variable as it was.
C11_FailedLoadChangesNothing ==
    [][(IsLoad /\ BadFile(hist'.path)) =>
           /\ hist'.error \in IOErrorKinds
           /\ hist'.reads = 1
           /\ layers' = layers
           /\ pyvars' = pyvars
           /\ files' = files]_vars

\* a load failed while the viewer held a layer and the variable an array
C11_Witness ==
    /\ hist.error \in IOErrorKinds
    /\ BadFile(hist.path)
    /\ Len(layers) >= 2
    /\ pyvars["nuclei"] = LoadImage

\* ------------------------------------------------------------------------
\* Lesson 02: the threshold widget on images of two intensity modes
\* ------------------------------------------------------------------------
\* the intensities of the dark mode (background) and of the bright mode
\* (nuclei): every dark intensity is below every bright one
LowMode == {0, 5, 10}

HighMode == {30, 45, 60}

BimodalShape == <<1, 2, 2>>

\* the volumes that hold pixels of both modes
BimodalImages ==
    {Array(BimodalShape, 2, vals) :
        vals \in {v \in [1..Product(BimodalShape) -> LowMode \cup HighMode] :
                     /\ \E k \in DOMAIN v : v[k] \in LowMode
                     /\ \E k \in DOMAIN v : v[k] \in HighMode}}

BimodalRequests == {SliderMinimum, 25, DefaultPercentile, 75, SliderMaximum}

InitBimodal ==
    /\ \E image \in BimodalImages :
          /\ pyvars = [v \in PyVars |-> IF v = "nuclei_mip" THEN image ELSE None]
          /\ layers = AppendLayer(<<>>, "image", Name("nuclei_mip"), image, NoKwargs)
    /\ files = [p \in Paths |-> None]
    /\ percentile = DefaultPercentile
    /\ hist = NoPresses

NextBimodal == \E v \in BimodalRequests : SetPercentile(v)

SpecBimodal == InitBimodal /\ [][NextBimodal]_vars

\* the ground truth: the pixels of the bright mode
GroundTruth(image) == {k \in 1..Len(image.vals) : image.vals[k] \in HighMode}

LowValues(image) == {image.vals[k] : k \in (1..Len(image.vals)) \ GroundTruth(image)}

HighValues(image) == {image.vals[k] : k \in GroundTruth(image)}

SetMax(S) == CHOOSE x \in S : \A y \in S : y <= x

SetMin(S) == CHOOSE x \in S : \A y \in S : x <= y

\* each mode spans less than the gap between the two modes
NarrowModes(image) ==
    LET gap == SetMin(HighValues(image)) - SetMax(LowValues(image))
    IN  /\ SetMax(LowValues(image)) - SetMin(LowValues(image)) < gap
        /\ SetMax(HighValues(image)) - SetMin(HighValues(image)) < gap

ShownAtFifty == percentile = DefaultPercentile /\ HasLayer(layers, ResultName)

\* C12 as stated: at percentile 50 the mask of an image of two intensity
\* modes is the ground truth: every pixel of the bright mode is foreground
\* and every pixel of the dark mode is background.
C12_BimodalMatchesTruth ==
    ShownAtFifty =>
        Foreground(Result(layers)) = GroundTruth(SelectedImage(layers).data)

\* C12 amended: the same, for an image each of whose modes spans less than
\* the gap between the two modes.
C12_NarrowBimodalMatchesTruth ==
    (ShownAtFifty /\ NarrowModes(SelectedImage(layers).data)) =>
        Foreground(Result(layers)) = GroundTruth(SelectedImage(layers).data)

\* an image of narrow modes with more than one intensity in each mode,
\* thresholded at 50 after the slider had been elsewhere
C12_Witness ==
    /\ ShownAtFifty
    /\ NarrowModes(SelectedImage(layers).data)
    /\ Cardinality(LowValues(SelectedImage(layers).data)) = 2
    /\ Cardinality(HighValues(SelectedImage(layers).data)) = 2
    /\ Foreground(Result(layers)) = GroundTruth(SelectedImage(layers).data)

\* ------------------------------------------------------------------------
\* Lesson 02: the loops that remove every layer but the first
\* ------------------------------------------------------------------------
\* the most layers after the first
MaxFilters == 3

\* name= of the five add_image calls of cell 8
FilterNames == {"Horizontal Sobel", "Vertical Sobel", "Roberts", "Prewitt", "Scharr"}

\* a variant in which the slice is a view of the list
sliced_view(snapshot, ls) == Tail(ls)

\* viewer.layers[1:] is a new list of the layers from index 1 on: what the
\* loop iterates over is that list, whatever becomes of viewer.layers (a
\* layer is given by its name, which no step of the loop changes)
sliced(snapshot, ls) == snapshot

Idle == [loop |-> "idle", snapshot |-> <<>>, it |-> 0, before |-> <<>>, failed |-> FALSE]

\* viewer.add_image(filters.sobel_h(nuclei_mip), name='Horizontal Sobel'), ...
AddFilter(name) ==
    /\ hist.loop # "running"
    /\ Len(layers) <= MaxFilters
    /\ ~HasLayer(layers, Name(name))
    /\ layers' = AppendLayer(layers, "image", Name(name), pyvars["nuclei_mip"], NoKwargs)
    /\ hist' = Idle
    /\ UNCHANGED <<files, pyvars, percentile>>

\* for l in viewer.layers[1:]: the slice is taken and the iterator is made
StartLoop ==
    /\ hist.loop # "running"
    /\ Len(layers) >= 1
    /\ hist' = [loop |-> "running",
                snapshot |-> [i \in 1..(Len(layers) - 1) |-> layers[i + 1].name],
                it |-> 0, before |-> layers, failed |-> FALSE]
    /\ UNCHANGED <<layers, files, pyvars, percentile>>

\* one turn of the loop: the iterator gives the next layer l, or ends the
\* loop; viewer.layers.remove(l) raises when l is not in the list
LoopStep ==
    /\ hist.loop = "running"
    /\ LET list == sliced(hist.snapshot, layers)
       IN  IF hist.it >= Len(list)
           THEN /\ hist' = [hist EXCEPT !.loop = "done"]
                /\ UNCHANGED layers
           ELSE LET l == list[hist.it + 1]
                IN  IF HasLayer(layers, l)
                    THEN /\ layers' = RemoveAt(layers, LayerIndex(layers, l))
                         /\ hist' = [hist EXCEPT !.it = @ + 1]
                    ELSE /\ hist' = [hist EXCEPT !.loop = "done", !.failed = TRUE]
                         /\ UNCHANGED layers
    /\ UNCHANGED <<files, pyvars, percentile>>

InitRemove ==
    /\ pyvars = [v \in PyVars |-> IF v = "nuclei_mip" THEN SmallImage ELSE None]
    /\ layers = AppendLayer(<<>>, "image", Name("nuclei_mip"), SmallImage, NoKwargs)
    /\ files = [p \in Paths |-> None]
    /\ percentile = DefaultPercentile
    /\ hist = Idle

NextRemove ==
    \/ \E name \in FilterNames : AddFilter(name)
    \/ StartLoop
    \/ LoopStep

SpecRemove == InitRemove /\ [][NextRemove]_vars

\* C13: when the loop `for l in viewer.layers[1:]: viewer.layers.remove(l)`
\* has ended, the layer list holds exactly the layer that was first before
\* the loop ('nuclei_mip'): no layer was skipped and no removal failed.
C13_LoopLeavesFirstLayer ==
    hist.loop = "done" =>
        /\ ~hist.failed
        /\ layers = <<hist.before[1]>>
        /\ layers[1].name = Name("nuclei_mip")

\* the loop ended after it had removed as many layers as the viewer holds
\* after the first
C13_Witness ==
    /\ hist.loop = "done"
    /\ Len(hist.before) = MaxFilters + 1
    /\ hist.it = MaxFilters
    /\ Len(layers) = 1

\* ------------------------------------------------------------------------
\* Lesson 02: distance transform, smoothing and peak detection.  Distances
\* and smoothed distances are fixed-point numbers (ten-thousandths).
\* ------------------------------------------------------------------------
DistanceUnit == 10000

\* the largest r with r * r <= x
Isqrt(x, most) == CHOOSE r \in 0..most : r * r <= x /\ x < (r + 1) * (r + 1)

SquaredDistance(shape, j, k) ==
    ((RowOf(shape, j) - RowOf(shape, k)) * (RowOf(shape, j) - RowOf(shape, k)))
        + ((ColOf(shape, j) - ColOf(shape, k)) * (ColOf(shape, j) - ColOf(shape, k)))

\* ndimage.distance_transform_edt(mask): for every pixel of the mask the
\* Euclidean distance to the nearest background pixel, 0 elsewhere
distance_transform_edt(mask) ==
    LET nearest(k) == SetMin({SquaredDistance(mask.shape, j, k) : j \in Background(mask)})
        hundredths(k) == Isqrt(nearest(k) * 10000, 100 * (mask.shape[1] + mask.shape[2]))
    IN  [mask EXCEPT
            !.itemsize = 8,
            !.vals = Listed([k \in 1..Len(mask.vals) |->
                         IF mask.vals[k] = 0 THEN 0
                         ELSE hundredths(k) * (DistanceUnit \div 100)])]

Sigma == 10

\* the kernel of scipy's gaussian_filter reaches int(4.0 * sigma + 0.5) pixels
KernelRadius == ((4 * Sigma * 2) + 1) \div 2

\* 1000 * exp(-d * d / (2 * sigma * sigma)) for d = 0..KernelRadius, rounded
KernelWeights ==
    <<1000, 995, 980, 956, 923, 882, 835, 783, 726, 667, 607, 546, 487, 430,
     375, 325, 278, 236, 198, 164, 135, 110, 89, 71, 56, 44, 34, 26, 20,
     15, 11, 8, 6, 4, 3, 2, 2, 1, 1, 0, 0>>

Weight(d) == KernelWeights[Abs(d) + 1]

\* the sum of f[lo], ..., f[hi]
RECURSIVE SumOf(_, _, _)
SumOf(f, lo, hi) == IF lo > hi THEN 0 ELSE f[lo] + SumOf(f, lo + 1, hi)

KernelSum == SumOf([d \in 0..(2 * KernelRadius) |-> Weight(d - KernelRadius)],
                   0, 2 * KernelRadius)

\* mode='nearest': beyond the border the image continues with its edge value
Clamp(i, most) == Max(1, Min(most, i))

PixelAt(shape, r, c) == ((r - 1) * shape[2]) + c

\* one pass of the kernel along the rows (axis 0) or the columns (axis 1)
gaussian_filter1d(arr, axis) ==
    [arr EXCEPT !.vals = Listed([k \in 1..Len(arr.vals) |->
        LET r == RowOf(arr.shape, k)
            c == ColOf(arr.shape, k)
            at(d) == IF axis = 0
                     THEN arr.vals[PixelAt(arr.shape, Clamp(r + d, arr.shape[1]), c)]
                     ELSE arr.vals[PixelAt(arr.shape, r, Clamp(c + d, arr.shape[2]))]
        IN  SumOf([d \in 0..(2 * KernelRadius) |->
                      Weight(d - KernelRadius) * at(d - KernelRadius)],
                  0, 2 * KernelRadius)
                \div KernelSum])]

\* filters.gaussian(distance, 10)
gaussian(arr) == gaussian_filter1d(gaussian_filter1d(arr, 0), 1)

\* footprint=np.ones((7, 7)): the window reaches 3 pixels each way
FootprintSize == 7

FootprintRadius == (FootprintSize - 1) \div 2

InFootprint(shape, j, k) ==
    /\ Abs(RowOf(shape, j) - RowOf(shape, k)) <= FootprintRadius
    /\ Abs(ColOf(shape, j) - ColOf(shape, k)) <= FootprintRadius

\* feature.peak_local_max(image, footprint=..., indices=False, labels=labels):
\* within every labelled region, the pixels that hold the maximum of the
\* image over their footprint, the image taken as 0 outside the region
peak_local_max(image, labels) ==
    LET inside(j, k) == IF labels.vals[j] = labels.vals[k] THEN image.vals[j] ELSE 0
    IN  [labels EXCEPT
            !.itemsize = 1,
            !.vals = Listed([k \in 1..Len(labels.vals) |->
                         IF /\ labels.vals[k] # 0
                            /\ image.vals[k] > 0
                            /\ \A j \in 1..Len(labels.vals) :
                                   InFootprint(labels.shape, j, k) =>
                                       inside(j, k) <= image.vals[k]
                         THEN 1 ELSE 0])]

\* np.array(np.nonzero(peak_local_max)).T: the (row, column) of every peak in
\* scan order, as the coordinates of a points layer (halves of a pixel)
peak_points(peaks) ==
    LET RECURSIVE coords(_)
        coords(k) ==
            IF k > Len(peaks.vals) THEN <<>>
            ELSE (IF peaks.vals[k] = 0 THEN <<>>
                  ELSE <<2 * (RowOf(peaks.shape, k) - 1), 2 * (ColOf(peaks.shape, k) - 1)>>)
                 \o coords(k + 1)
    IN  Array(<<Cardinality(Foreground(peaks)), 2>>, 8, coords(1))

\* ------------------------------------------------------------------------
\* Lesson 02: the cells and key bindings that assign to a layer's data
\* ------------------------------------------------------------------------
DistanceName == Name("distance")

ForegroundName == Name("foreground")

KeySegmentationName == Name("nuclei segmentation")

\* what the last cell or handler was, the layer it assigned to ("" when
\* none), and the exception it ended in
Ran(handler, target, error) == [handler |-> handler, target |-> target, error |-> error]

\* cell 14: the cleanup, and viewer.layers['foreground'].data = ...
Cell14 ==
    /\ pyvars["foreground"] # None
    /\ HasLayer(layers, ForegroundName)
    /\ LET foreground_processed == clean_mask(pyvars["foreground"])
       IN  /\ pyvars' = [pyvars EXCEPT !["foreground_processed"] = foreground_processed]
           /\ layers' = set_data(layers, ForegroundName, foreground_processed)
    /\ hist' = Ran("cell 14", "foreground", NoError)
    /\ UNCHANGED <<files, percentile>>

\* cell 16: distance = ndimage.distance_transform_edt(foreground_processed);
\* viewer.add_image(distance)
Cell16 ==
    /\ pyvars["foreground_processed"] # None
    /\ ~HasLayer(layers, DistanceName)
    /\ LET distance == distance_transform_edt(pyvars["foreground_processed"])
       IN  /\ pyvars' = [pyvars EXCEPT !["distance"] = distance]
           /\ layers' = AppendLayer(layers, "image", DistanceName, distance, NoKwargs)
    /\ hist' = Ran("cell 16", "", NoError)
    /\ UNCHANGED <<files, percentile>>

\* cell 18: smoothed_distance = filters.gaussian(distance, 10);
\* viewer.layers['distance'].data = smoothed_distance
Cell18 ==
    /\ pyvars["distance"] # None
    /\ HasLayer(layers, DistanceName)
    /\ LET smoothed_distance == gaussian(pyvars["distance"])
       IN  /\ pyvars' = [pyvars EXCEPT !["smoothed_distance"] = smoothed_distance]
           /\ layers' = set_data(layers, DistanceName, smoothed_distance)
    /\ hist' = Ran("cell 18", "distance", NoError)
    /\ UNCHANGED <<files, percentile>>

\* cells 20 and 21: the peaks of the smoothed distance, shown as the points
\* layer 'peaks'
Cell20 ==
    /\ pyvars["smoothed_distance"] # None
    /\ ~HasLayer(layers, PeaksName)
    /\ LET found == peak_local_max(pyvars["smoothed_distance"],
                                   label(pyvars["foreground_processed"]))
       IN  layers' = AppendLayer(layers, "points", PeaksName, peak_points(found), NoKwargs)
    /\ hist' = Ran("cell 20", "", NoError)
    /\ UNCHANGED <<files, pyvars, percentile>>

\* cell 35: viewer.add_labels(np.zeros(nuclei_mip.shape), name='nuclei segmentation')
AddSegmentationLayer ==
    /\ pyvars["nuclei_mip"] # None
    /\ ~HasLayer(layers, KeySegmentationName)
    /\ layers' = AppendLayer(layers, "labels", KeySegmentationName,
                     Array(pyvars["nuclei_mip"].shape, 8,
                           [k \in 1..Product(pyvars["nuclei_mip"].shape) |-> 0]),
                     NoKwargs)
    /\ hist' = Ran("cell 35", "", NoError)
    /\ UNCHANGED <<files, pyvars, percentile>>

\* the nuclei_segmentation that the handler computes from the mask it finds
\* in 'threshold result'
nuclei_segmentation_of(foreground) ==
    LET distance == distance_transform_edt(foreground)
        smoothed_distance == gaussian(distance)
        found == peak_local_max(smoothed_distance, label(foreground))
        seeds == [found EXCEPT !.shape = smoothed_distance.shape]
        markers == label(seeds)
    IN  watershed(Negate(smoothed_distance), markers, foreground)

\* a variant of the handler that leaves the mask out of the watershed
complete_segmentation_unmasked(ls) ==
    LET foreground == Result(ls)
        smoothed_distance == gaussian(distance_transform_edt(foreground))
        seeds == peak_local_max(smoothed_distance, label(foreground))
        ones == [foreground EXCEPT !.vals = Listed([k \in 1..Len(foreground.vals) |-> 1])]
    IN  set_data(ls, KeySegmentationName,
                 watershed(Negate(smoothed_distance), label(seeds), ones))

\* def complete_segmentation(viewer), bound to Shift-S, when it finds its
\* layers
complete_segmentation(ls) ==
    set_data(ls, KeySegmentationName, nuclei_segmentation_of(Result(ls)))

\* Shift-P is pressed: viewer.layers['threshold result'] raises KeyError when
\* no layer bears the name
PressShiftP ==
    /\ IF HasLayer(layers, ResultName)
       THEN /\ layers' = process_foreground(layers)
            /\ hist' = Ran("Shift-P", "threshold result", NoError)
       ELSE /\ hist' = Ran("Shift-P", "", "KeyError")
            /\ UNCHANGED layers
    /\ UNCHANGED <<files, pyvars, percentile>>

\* Shift-S is pressed: the handler looks up 'threshold result' first and
\* 'nuclei segmentation' last
PressShiftS ==
    /\ IF HasLayer(layers, ResultName) /\ HasLayer(layers, KeySegmentationName)
       THEN /\ layers' = complete_segmentation(layers)
            /\ hist' = Ran("Shift-S", "nuclei segmentation", NoError)
       ELSE /\ hist' = Ran("Shift-S", "", "KeyError")
            /\ UNCHANGED layers
    /\ UNCHANGED <<files, pyvars, percentile>>

\* ------------------------------------------------------------------------
\* Lesson 02: the step-by-step segmentation and Shift-S on the same mask
\* ------------------------------------------------------------------------
AutoShape == <<2, 3>>

\* every mask that leaves some background
AutoMasks ==
    {Array(AutoShape, 1, [k \in 1..Product(AutoShape) |-> IF k \in S THEN 1 ELSE 0]) :
        S \in (SUBSET (1..Product(AutoShape))) \ {1..Product(AutoShape)}}

\* the image whose bright pixels are the mask
TwoLevel(mask) ==
    Array(mask.shape, 2, [k \in 1..Len(mask.vals) |-> IF mask.vals[k] = 0 THEN Dim ELSE Bright])

\* the state after cell 14, with the widget docked and the key bindings
\* made: the cleaned foreground is the mask of the bright pixels
InitAuto ==
    /\ \E mask \in AutoMasks :
          /\ pyvars = [v \in PyVars |->
                          CASE v = "nuclei_mip" -> TwoLevel(mask)
                            [] v = "foreground" -> mask
                            [] v = "foreground_processed" -> mask
                            [] OTHER -> None]
          /\ layers = AppendLayer(
                          AppendLayer(<<>>, "image", Name("nuclei_mip"), TwoLevel(mask), NoKwargs),
                          "labels", ForegroundName, mask, NoKwargs)
    /\ files = [p \in Paths |-> None]
    /\ percentile = DefaultPercentile
    /\ hist = NoPresses

\* the cells run in the order of the script: the widget and the key
\* bindings are used once cell 24 has run
NextAuto ==
    \/ Cell16
    \/ Cell18
    \/ Cell20
    \/ Segment
    \/ \E v \in CleanRequests : Segmented /\ SetPercentile(v)
    \/ Segmented /\ AddSegmentationLayer
    \/ Segmented /\ PressShiftS

SpecAuto == InitAuto /\ [][NextAuto]_vars

KeySegmentation == layers[LayerIndex(layers, KeySegmentationName)].data

\* Shift-S was the last thing done, on the mask that the step-by-step
\* cells had segmented
BothSegmented ==
    /\ "handler" \in DOMAIN hist
    /\ hist.handler = "Shift-S"
    /\ hist.error = NoError
    /\ pyvars["nuclei_segmentation"] # None
    /\ Result(layers) = pyvars["foreground_processed"]

\* C14: for every foreground mask, with the detected peaks left as they are,
\* the array that Shift-S writes into 'nuclei segmentation' equals the
\* nuclei_segmentation of the step-by-step cells run on the same mask.
C14_ShiftSEqualsManual ==
    BothSegmented => KeySegmentation = pyvars["nuclei_segmentation"]

\* both ways segmented a mask of two blobs into two nuclei
C14_Witness ==
    /\ BothSegmented
    /\ KeySegmentation = pyvars["nuclei_segmentation"]
    /\ Cardinality(PositiveLabels(KeySegmentation)) = 2
    /\ Foreground(KeySegmentation) = Foreground(Result(layers))

\* ------------------------------------------------------------------------
\* Lesson 02: the cells and handlers that assign to the data of a layer
\* ------------------------------------------------------------------------
AssignShape == <<11, 12>>

\* the rows of the image that the nucleus fills
NucleusRows == 5

\* one nucleus of 60 pixels over a background of 72 pixels
OneNucleus ==
    Array(AssignShape, 1,
          [k \in 1..Product(AssignShape) |->
              IF RowOf(AssignShape, k) <= NucleusRows THEN 1 ELSE 0])

\* the same with a hole of one pixel in the nucleus and a speck of one pixel
\* in the background
HoleAndSpeck ==
    [OneNucleus EXCEPT !.vals[PixelAt(AssignShape, 3, 3)] = 0,
                       !.vals[PixelAt(AssignShape, 9, 9)] = 1]

AssignMasks == {HoleAndSpeck}

\* the state after cell 12: foreground = nuclei_mip >= threshold_li(nuclei_mip)
\* is the mask of the bright pixels, shown as the labels layer 'foreground'
InitAssign ==
    /\ \E mask \in AssignMasks :
          /\ pyvars = [v \in PyVars |->
                          CASE v = "nuclei_mip" -> TwoLevel(mask)
                            [] v = "foreground" -> mask
                            [] OTHER -> None]
          /\ layers = AppendLayer(
                          AppendLayer(<<>>, "image", Name("nuclei_mip"), TwoLevel(mask), NoKwargs),
                          "labels", ForegroundName, mask, NoKwargs)
    /\ files = [p \in Paths |-> None]
    /\ percentile = DefaultPercentile
    /\ hist = NoPresses

\* cell 18 has run
Smoothed == pyvars["smoothed_distance"] # None

\* the cells run in the order of the script, and cell 14 may be run again
\* at any time: the widget and the key bindings are used once cell 18 has run
NextAssign ==
    \/ Cell14
    \/ Cell16
    \/ Cell18
    \/ \E v \in CleanRequests : Smoothed /\ SetPercentile(v)
    \/ Smoothed /\ AddSegmentationLayer
    \/ Smoothed /\ PressShiftP
    \/ Smoothed /\ PressShiftS

SpecAssign == InitAssign /\ [][NextAssign]_vars

\* the step ran a cell or a handler that assigns to the data of a layer
Assigned == "target" \in DOMAIN hist' /\ hist'.target # ""

\* the array on the right-hand side of the assignment
NewArray ==
    CASE hist'.handler = "cell 14" -> clean_mask(pyvars["foreground"])
      [] hist'.handler = "cell 18" -> gaussian(pyvars["distance"])
      [] hist'.handler = "Shift-P" -> clean_mask(Result(layers))
      [] hist'.handler = "Shift-S" -> nuclei_segmentation_of(Result(layers))

\* C15: an assignment viewer.layers[name].data = x ('foreground',
\* 'distance', 'threshold result', 'nuclei segmentation') leaves the number,
\* the order and the names of the layers as they were and every other layer
\* unchanged, and lookup by the name then returns the new array.
C15_AssignmentInPlace ==
    [][Assigned =>
          LET name == Name(hist'.target)
              at == LayerIndex(layers, name)
          IN  /\ at # 0
              /\ Len(layers') = Len(layers)
              /\ \A j \in 1..Len(layers) : layers'[j].name = layers[j].name
              /\ \A j \in (1..Len(layers)) \ {at} : layers'[j] = layers[j]
              /\ layers'[LayerIndex(layers', name)].data = NewArray]_vars

\* all four layers were assigned to, each holds an array other than the one
\* it was added with, and the layers stand in the order they were added in
C15_Witness ==
    /\ "handler" \in DOMAIN hist
    /\ hist.handler = "Shift-S"
    /\ hist.error = NoError
    /\ [j \in 1..Len(layers) |-> layers[j].name]
           = <<Name("nuclei_mip"), ForegroundName, DistanceName, ResultName,
               KeySegmentationName>>
    /\ layers[2].data = pyvars["foreground_processed"]
    /\ layers[2].data # pyvars["foreground"]
    /\ layers[3].data = pyvars["smoothed_distance"]
    /\ layers[3].data # pyvars["distance"]
    /\ layers[4].data = pyvars["foreground_processed"]
    /\ PositiveLabels(KeySegmentation) # {}
    /\ layers[1].data = pyvars["nuclei_mip"]

\* ------------------------------------------------------------------------
\* Lesson 02: the key bindings under every order of the user's actions
\* ------------------------------------------------------------------------
\* the layers that the handlers look up by name
HandlerLayers == {ResultName, KeySegmentationName}

\* the state after cell 36, reached in the order of the script: the loop of
\* cell 26 left 'nuclei_mip' alone, the widget is docked, cell 35 added the
\* empty labels layer, and both handlers are bound.  The slider was either
\* left alone or moved before the handlers were bound.
InitKeys ==
    /\ \E mask \in AutoMasks, moved \in BOOLEAN :
          LET shown == AppendLayer(<<>>, "image", Name("nuclei_mip"), TwoLevel(mask), NoKwargs)
              thresholded == IF moved THEN auto_call(shown, SliderMinimum) ELSE shown
          IN  /\ pyvars = [v \in PyVars |-> IF v = "nuclei_mip" THEN TwoLevel(mask) ELSE None]
              /\ layers = AppendLayer(thresholded, "labels", KeySegmentationName,
                              Array(AutoShape, 8, [k \in 1..Product(AutoShape) |-> 0]),
                              NoKwargs)
              /\ percentile = IF moved THEN SliderMinimum ELSE DefaultPercentile
    /\ files = [p \in Paths |-> None]
    /\ hist = NoPresses

\* the user's actions: the slider, the two keys, and the removal of a layer
\* in the layer list of the viewer
NextKeys ==
    \/ \E v \in CleanRequests : SetPercentile(v)
    \/ PressShiftP
    \/ PressShiftS
    \/ \E name \in HandlerLayers : RemoveLayer(name)

SpecKeys == InitKeys /\ [][NextKeys]_vars

\* C16: whenever a key-binding handler runs, the layers it looks up by name
\* exist: under every order of slider changes, Shift-P, Shift-S and layer
\* removals, neither handler ends in a missing-layer error.
C16_HandlersFindTheirLayers ==
    "error" \in DOMAIN hist => hist.error = NoError

\* ------------------------------------------------------------------------
\* Properties of lesson 00
\* ------------------------------------------------------------------------
\* the kernel variable an image layer of lesson 00 was displayed from
SourceVar(l) == IF l.name.base = "membranes" THEN "membranes" ELSE "nuclei"

\* C5: every image layer displayed with add_image holds exactly the shape and
\* the values of the array that imread loaded, whatever keyword arguments
\* were passed and whatever display properties were changed afterwards.
C5_DisplayKeepsLoadedArray ==
    \A i \in 1..Len(layers) :
        LET src == pyvars[SourceVar(layers[i])]
        IN  /\ src = imread(files[IF SourceVar(layers[i]) = "nuclei"
                                  THEN "data/nuclei.tif"
                                  ELSE "data/cell_membranes.tif"])
            /\ layers[i].data.shape = src.shape
            /\ layers[i].data.vals = src.vals

\* a layer added with keyword arguments whose contrast limits were then
\* changed to a range that leaves some of its values outside
C5_Witness ==
    \E i \in 1..Len(layers) :
        /\ layers[i].blending = "additive"
        /\ layers[i].contrast_limits = <<40, 60>>
        /\ layers[i].colormap = "red"
        /\ \E k \in 1..Len(layers[i].data.vals) : layers[i].data.vals[k] > 60

\* a step that renames the layer at index i
Renamed(i) ==
    /\ Len(layers') = Len(layers)
    /\ i \in 1..Len(layers)
    /\ layers'[i].name # layers[i].name

\* after the renaming of layer i to `new`: lookup by `new` gives layer i,
\* unchanged but for its name, and lookup by the old name does not give it
RenameOutcome(i, new) ==
    /\ LayerIndex(layers', new) = i
    /\ layers'[i] = [layers[i] EXCEPT !.name = new]
    /\ LayerIndex(layers', layers[i].name) # i
    /\ \A j \in (1..Len(layers)) \ {i} : layers'[j] = layers[j]

\* a step that adds a layer leaves the layers before it as they were, and
\* the new layer takes the name of its variable when no layer bears it
AddOutcome ==
    Len(layers') = Len(layers) + 1 =>
        /\ SubSeq(layers', 1, Len(layers)) = layers
        /\ LET l == layers'[Len(layers')]
           IN  ~HasLayer(layers, Name(l.name.base)) => l.name = Name(l.name.base)

\* C7 as stated: after any renaming of 'nuclei' to 'divison', lookup by the
\* new name returns that same layer with data and display properties intact,
\* lookup by the old name no longer returns it, and a later add_image makes a
\* distinct layer that can take the old name.
C7_RenameAlwaysFoundByNewName ==
    [][/\ \A i \in 1..Len(layers) : Renamed(i) => RenameOutcome(i, Name("divison"))
       /\ AddOutcome]_vars

\* C7 amended: the same, for a renaming to a name that no other layer bears.
C7_RenameToFreeName ==
    [][/\ \A i \in 1..Len(layers) :
             Renamed(i) /\ ~HasLayer(layers, Name("divison"))
                 => RenameOutcome(i, Name("divison"))
       /\ AddOutcome]_vars

\* the renamed layer keeps the display properties set before the renaming,
\* beside a later layer of the same array that took the old name
C7_Witness ==
    \E i, j \in 1..Len(layers) :
        /\ i < j
        /\ layers[i].name = Name("divison")
        /\ layers[i].colormap = "red"
        /\ layers[i].contrast_limits = <<40, 60>>
        /\ layers[i].opacity = 90
        /\ layers[j].name = Name("nuclei")
        /\ layers[j].data = layers[i].data
        /\ layers[j].colormap = "blue"

====
